---- MODULE Spec2Model ----
(***************************************************************************)
(* Model of the llm_tooluse package: the process-wide ToolRegistry, the    *)
(* ToolCollection views over it, and the LLMClient tool loop.              *)
(***************************************************************************)
EXTENDS Integers, Sequences, FiniteSets, TLC

VARIABLES
    tools,          \* ToolRegistry._tools: name -> tool reference
    collections,    \* the tool_names sets of the ToolCollections constructed so far
    last,           \* outcome (return value or raised error) of the last operation
    client,         \* the LLMClient (None before construction)
    pc,             \* position of the running turn in LLMClient.__call__/_tool_loop
    messages,       \* the caller's message list, mutated in place by the loop
    tool_calls,     \* tool calls extracted from the first model response
    idx,            \* index of the tool call being processed
    toolcollection, \* tool_names of the collection bound at the start of the loop
    toolcall,       \* the parsed tool call being dispatched or awaited
    model_calls,    \* responses returned by call_func in this turn, in order
    executed,       \* tool invocations started in this turn, in order
    outcome,        \* how the turn ended: returned response or propagated error
    clients,        \* MCPConnectionManager._clients: server name -> connected client
    connecting      \* the connect_server calls suspended between their steps

collVars == <<collections, last>>
turnVars == <<client, pc, messages, tool_calls, idx, toolcollection, toolcall,
              model_calls, executed, outcome>>
mcpVars  == <<clients, connecting>>
vars     == <<tools, collections, last, client, pc, messages, tool_calls, idx,
              toolcollection, toolcall, model_calls, executed, outcome, clients,
              connecting>>

(***************************************************************************)
(* Bounds and input sets.                                                  *)
(***************************************************************************)
MaxCollections == 3
MaxFromTools   == 2
MaxBlocks      == 2
MaxParams      == 2
MaxConnecting  == 2

\* Python's None (distinct from the text "None")
None     == "<None>"
\* an absent Optional[Set[str]] (Python None), kept set-valued
NoneSet  == {None}
Names    == {"add", "sub", "div"}
Sessions == {1, 2}

\* The references the registry is fed with: one MCPToolReference per
\* (name, session); the input schema of add declares its parameter x nullable.
Nullable      == {"add"}
ToolRef(n, s) == [name |-> n, session |-> s, nullable |-> (n \in Nullable),
                  kind |-> "remote"]
ToolRefs      == {ToolRef(n, s) : n \in Names, s \in Sessions}

\* A Tool wrapping a plain (def, not async def) function, as those of
\* calculator.py; it holds no session (0)
FuncTool(n) == [name |-> n, session |-> 0, nullable |-> (n \in Nullable),
                kind |-> "function"]

\* The references from_tools is handed: the tools one server lists
ListedRefs == {ToolRef(n, 2) : n \in Names}

\* The names and references a turn is run with
LoopNames == {"add", "sub"}
LoopRefs  == {ToolRef(n, 1) : n \in LoopNames}

\* The references a directly invoked collection is run with
CallRefs == LoopRefs \cup {FuncTool(n) : n \in LoopNames}

\* argument values a model supplies: "" is one of the null sentinels
ArgValues == {"", "7"}
Args      == [x : ArgValues]

RECURSIVE SeqsUpTo(_, _)
SeqsUpTo(S, n) ==
    IF n = 0 THEN {<<>>}
    ELSE LET shorter == SeqsUpTo(S, n - 1)
         IN  shorter \cup {Append(q, e) : q \in {r \in shorter : Len(r) = n - 1}, e \in S}

Range(q) == {q[i] : i \in 1..Len(q)}

(***************************************************************************)
(* ToolRegistry                                                            *)
(***************************************************************************)
EmptyRegistry == [n \in {} |-> None]

\* MCPConnectionManager._clients with no server connected
NoClients == [n \in {} |-> 0]

\* ToolRegistry.available_tools: the names registered in reg
available_tools(reg) == DOMAIN reg

\* str(tool): the key a reference is registered under
Str_tool(tool) == tool.name

\* a register that keeps the entry a name already has
register_map_keep_first(reg, tool) ==
    [n \in (DOMAIN reg) \cup {Str_tool(tool)} |->
        IF n \in DOMAIN reg THEN reg[n] ELSE tool]

\* ToolRegistry.register: self._tools[str(tool)] = tool
register_map(reg, tool) ==
    [n \in (DOMAIN reg) \cup {Str_tool(tool)} |->
        IF n = Str_tool(tool) THEN tool ELSE reg[n]]

RECURSIVE register_all(_, _)
register_all(reg, ts) ==
    IF ts = <<>> THEN reg
    ELSE register_all(register_map(reg, Head(ts)), Tail(ts))

\* the entry no name is bound to
NoTool == [name |-> None, session |-> 0, nullable |-> FALSE, kind |-> "none"]

\* a get that hands back a default for a missing name, as dict.get does
get_default(reg, name) ==
    IF name \notin DOMAIN reg
    THEN [ok |-> TRUE, tool |-> NoTool]
    ELSE [ok |-> TRUE, tool |-> reg[name]]

\* ToolRegistry.get: the entry, or ValueError when the name is not registered
get(reg, name) ==
    IF name \notin DOMAIN reg
    THEN [ok |-> FALSE, error |-> "ValueError", what |-> "not registered", names |-> {name}]
    ELSE [ok |-> TRUE, tool |-> reg[name]]

\* Other coroutines and callers run only while no turn is between two
\* suspension points: before a turn, while a tool invocation is awaited, and
\* after the turn has returned or raised (call_func itself is a blocking call).
interleavable == pc \in {"idle", "await", "returned", "raised"}

\* ToolRegistry.register; last also keeps whether the name was bound before
register(tool) ==
    /\ interleavable
    /\ tools' = register_map(tools, tool)
    /\ last' = [op |-> "register", ok |-> TRUE, tool |-> tool,
                replaced |-> Str_tool(tool) \in available_tools(tools)]
    /\ UNCHANGED collections
    /\ UNCHANGED turnVars
    /\ UNCHANGED mcpVars

\* ToolRegistry.get called by a caller outside the tool loop
registry_get(name) ==
    /\ interleavable
    /\ last' = [op |-> "get", name |-> name] @@ get(tools, name)
    /\ UNCHANGED <<tools, collections>>
    /\ UNCHANGED turnVars
    /\ UNCHANGED mcpVars

\* a reset that leaves the entries where they are
reset_keeps_entries ==
    /\ interleavable
    /\ tools' = tools
    /\ last' = [op |-> "reset", ok |-> TRUE]
    /\ UNCHANGED collections
    /\ UNCHANGED turnVars
    /\ UNCHANGED mcpVars

\* ToolRegistry.reset
reset ==
    /\ interleavable
    /\ tools' = EmptyRegistry
    /\ last' = [op |-> "reset", ok |-> TRUE]
    /\ UNCHANGED collections
    /\ UNCHANGED turnVars
    /\ UNCHANGED mcpVars

(***************************************************************************)
(* ToolCollection                                                          *)
(***************************************************************************)
\* a constructor whose validation is switched off
construct_unchecked(reg, tool_names) ==
    [ok |-> TRUE,
     tool_names |-> IF tool_names = NoneSet \/ tool_names = {} THEN {} ELSE tool_names]

\* a constructor whose error names only one of the unknown names
construct_names_one(reg, tool_names) ==
    LET names   == IF tool_names = NoneSet \/ tool_names = {} THEN {} ELSE tool_names
        unknown == names \ available_tools(reg)
    IN  IF unknown # {}
        THEN [ok |-> FALSE, error |-> "ValueError", what |-> "Unknown tools",
              names |-> {CHOOSE n \in unknown : TRUE}]
        ELSE [ok |-> TRUE, tool_names |-> names]

\* ToolCollection.__init__ against registry reg: the new collection's
\* tool_names, or ValueError naming the unknown names
construct(reg, tool_names) ==
    LET names   == IF tool_names = NoneSet \/ tool_names = {} THEN {} ELSE tool_names
        unknown == names \ available_tools(reg)
    IN  IF unknown # {}
        THEN [ok |-> FALSE, error |-> "ValueError", what |-> "Unknown tools", names |-> unknown]
        ELSE [ok |-> TRUE, tool_names |-> names]

\* store the result of a constructor call: a new collection on success
\* (at most MaxCollections distinct name sets are kept)
Constructed(called, res) ==
    /\ last' = called @@ res
    /\ collections' = IF res.ok THEN collections \cup {res.tool_names} ELSE collections
    /\ Cardinality(collections') <= MaxCollections

ToolCollection_init(tool_names) ==
    /\ interleavable
    /\ Constructed([op |-> "init"], construct(tools, tool_names))
    /\ UNCHANGED tools
    /\ UNCHANGED turnVars
    /\ UNCHANGED mcpVars

from_tools(ts) ==
    /\ interleavable
    /\ tools' = register_all(tools, ts)
    /\ Constructed([op |-> "from_tools", tools |-> Range(ts)],
                   construct(tools', {Str_tool(t) : t \in Range(ts)}))
    /\ UNCHANGED turnVars
    /\ UNCHANGED mcpVars

\* a collection that claims every name
contains_any(tool_names, item) == TRUE

\* ToolCollection.__contains__
contains(tool_names, item) == item \in tool_names

\* a __mul__ written with & in place of |
mul_names_intersection(reg, a, b) == construct(reg, a \cap b)

\* ToolCollection.__mul__: ToolCollection(self.tool_names | other.tool_names)
mul_names(reg, a, b) == construct(reg, a \cup b)

\* a __mul__ that updates its left operand in place and returns it
mul_in_place(a, b) ==
    /\ interleavable
    /\ last' = [op |-> "mul", left |-> a, right |-> b] @@ mul_names(tools, a, b)
    /\ collections' = IF last'.ok THEN (collections \ {a}) \cup {a \cup b}
                       ELSE collections
    /\ UNCHANGED tools
    /\ UNCHANGED turnVars
    /\ UNCHANGED mcpVars

\* a * b for two collections; last keeps the operands
mul(a, b) ==
    /\ interleavable
    /\ Constructed([op |-> "mul", left |-> a, right |-> b], mul_names(tools, a, b))
    /\ UNCHANGED tools
    /\ UNCHANGED turnVars
    /\ UNCHANGED mcpVars

\* a __sub__ that takes a collection or a set only
exclude_of_no_list(other) ==
    IF other.type = "ToolCollection" THEN [ok |-> TRUE, names |-> other.tool_names]
    ELSE IF other.type = "set" THEN [ok |-> TRUE, names |-> other.val]
    ELSE [ok |-> FALSE, error |-> "TypeError"]

\* a __sub__ that takes any iterable of names, a string as the one name it is
exclude_of_any(other) ==
    IF other.type = "ToolCollection" THEN [ok |-> TRUE, names |-> other.tool_names]
    ELSE IF other.type = "set" THEN [ok |-> TRUE, names |-> other.val]
    ELSE IF other.type = "list" THEN [ok |-> TRUE, names |-> Range(other.val)]
    ELSE [ok |-> TRUE, names |-> {other.val}]

\* the names excluded by the right operand of __sub__, by its type
exclude_of(other) ==
    IF other.type = "ToolCollection" THEN [ok |-> TRUE, names |-> other.tool_names]
    ELSE IF other.type = "set" THEN [ok |-> TRUE, names |-> other.val]
    ELSE IF other.type = "list" THEN [ok |-> TRUE, names |-> Range(other.val)]
    ELSE [ok |-> FALSE, error |-> "TypeError"]

\* a __sub__ with its operands swapped
sub_names_swapped(reg, a, other) ==
    LET ex == exclude_of(other)
    IN  IF ex.ok
        THEN construct(reg, ex.names \ a)
        ELSE [ok |-> FALSE, error |-> "TypeError", what |-> "Unsupported type",
              names |-> {}]

\* ToolCollection.__sub__: ToolCollection(self.tool_names - exclude), or
\* TypeError for an operand of another type
sub_names(reg, a, other) ==
    LET ex == exclude_of(other)
    IN  IF ex.ok
        THEN construct(reg, a \ ex.names)
        ELSE [ok |-> FALSE, error |-> "TypeError", what |-> "Unsupported type",
              names |-> {}]

\* a - other for a collection a; last keeps the operands
sub(a, other) ==
    /\ interleavable
    /\ Constructed([op |-> "sub", left |-> a, other |-> other],
                   sub_names(tools, a, other))
    /\ UNCHANGED tools
    /\ UNCHANGED turnVars
    /\ UNCHANGED mcpVars

\* a __call__ that looks the name up in the registry before it checks membership
resolve_registry_first(reg, tool_names, tool) ==
    IF ~get(reg, tool).ok THEN get(reg, tool)
    ELSE IF ~contains(tool_names, tool)
    THEN [ok |-> FALSE, error |-> "ValueError", what |-> "not in this collection",
          names |-> {tool}]
    ELSE get(reg, tool)

\* ToolCollection.__call__ up to the call of the reference: the reference to
\* run, or ValueError (not in this collection / not registered)
resolve(reg, tool_names, tool) ==
    IF ~contains(tool_names, tool)
    THEN [ok |-> FALSE, error |-> "ValueError", what |-> "not in this collection",
          names |-> {tool}]
    ELSE get(reg, tool)

ToolOutcomes ==
    {[type |-> "value", text |-> "4.0"],
     [type |-> "ValueError", text |-> "division by zero"],
     [type |-> "AttributeError", text |-> "no attribute"],
     [type |-> "RuntimeError", text |-> "connection lost"]}

\* what a tool invoked outside the tool loop does
DirectOutcomes == {o \in ToolOutcomes : o.type \in {"value", "ValueError"}}

\* `await ref(**kwargs)`: out is what the body of the tool did.  The call of
\* an MCPToolReference is a coroutine, and awaiting it yields out; the call of
\* a Tool over a plain function has run the function and returned its value,
\* which is not awaitable, so the await raises TypeError.
await_ref(ref, out) ==
    IF ref.kind = "function" /\ out.type = "value"
    THEN [type |-> "TypeError", text |-> "object can't be used in 'await' expression"]
    ELSE out

\* ToolCollection.__call__ from a caller outside the tool loop
invoke(c, tool, args, out) ==
    /\ interleavable
    /\ LET r == resolve(tools, c, tool)
       IN  last' = IF r.ok
                   THEN [op |-> "call", c |-> c, name |-> tool, ran |-> TRUE,
                         ok |-> await_ref(r.tool, out).type = "value",
                         tool |-> r.tool, args |-> args, out |-> out,
                         result |-> await_ref(r.tool, out)]
                   ELSE [op |-> "call", c |-> c, name |-> tool, ran |-> FALSE] @@ r
    /\ UNCHANGED <<tools, collections>>
    /\ UNCHANGED turnVars
    /\ UNCHANGED mcpVars

\* the schema an entry carries: Tool.schema of a function-backed entry,
\* what MCPToolReference.get_schema builds of a remote-backed one
schema_of(ref) ==
    [name |-> ref.name, description |-> <<ref.kind, ref.session>>,
     nullable |-> ref.nullable]

\* `ref.get_schema()`: MCPToolReference defines get_schema, Tool does not
call_get_schema(ref) ==
    IF ref.kind = "function"
    THEN [ok |-> FALSE, error |-> "AttributeError",
          what |-> "'Tool' object has no attribute 'get_schema'", names |-> {ref.name}]
    ELSE [ok |-> TRUE, schema |-> schema_of(ref)]

\* the orders in which a set of names can be iterated
Orders(names) ==
    {q \in SeqsUpTo(names, Cardinality(names)) :
        Len(q) = Cardinality(names) /\ Range(q) = names}

\* the names of seq that are in tool_names, in the order of seq
RECURSIVE Restrict(_, _)
Restrict(seq, tool_names) ==
    IF seq = <<>> THEN <<>>
    ELSE IF Head(seq) \in tool_names
    THEN <<Head(seq)>> \o Restrict(Tail(seq), tool_names)
    ELSE Restrict(Tail(seq), tool_names)

\* the loop of get_schemas from the i-th name on: the first lookup or
\* get_schema that raises ends it
RECURSIVE get_schemas_from(_, _, _, _)
get_schemas_from(reg, order, i, schemas) ==
    IF i > Len(order) THEN [ok |-> TRUE, schemas |-> schemas]
    ELSE LET g == get(reg, order[i])
         IN  IF ~g.ok THEN g
             ELSE LET sc == call_get_schema(g.tool)
                  IN  IF ~sc.ok THEN sc
                      ELSE get_schemas_from(reg, order, i + 1, Append(schemas, sc.schema))

\* ToolCollection.get_schemas; the set tool_names is iterated in the order
\* its names have in `order`
get_schemas(c, order) ==
    /\ interleavable
    /\ last' = [op |-> "get_schemas", c |-> c, order |-> Restrict(order, c)]
                    @@ get_schemas_from(tools, Restrict(order, c), 1, <<>>)
    /\ UNCHANGED <<tools, collections>>
    /\ UNCHANGED turnVars
    /\ UNCHANGED mcpVars

(***************************************************************************)
(* Vendor adapters                                                         *)
(***************************************************************************)
\* str(output): a returned value prints as its text, a raised error as its message
Str(output) == output.text

\* content blocks a model may emit (Anthropic) and tool calls (Ollama)
TextBlock  == [type |-> "text", text |-> "thinking"]
ToolBlocks(names, args) ==
    {[type |-> "tool_use", name |-> n, input |-> a] : n \in names, a \in args}
LlamaCalls(names, args) ==
    {[function |-> [name |-> n, arguments |-> a]] : n \in names, a \in args}

\* tool_use blocks carry a correlation id, unique within the response
WithIds(content) ==
    [i \in 1..Len(content) |->
        IF content[i].type = "tool_use" THEN [id |-> i] @@ content[i] ELSE content[i]]

AnthropicResponses(n, names, args) ==
    {[content |-> WithIds(c)] : c \in SeqsUpTo(ToolBlocks(names, args) \cup {TextBlock}, n)}
LlamaResponses(n, names, args) ==
    {[message |-> [role |-> "assistant", content |-> "", tool_calls |-> t]] :
        t \in SeqsUpTo(LlamaCalls(names, args), n)}
        \cup {[message |-> [role |-> "assistant", content |-> "no tools"]]}

Responses(client_type, n, names, args) ==
    IF client_type = "ANTHROPIC"
    THEN AnthropicResponses(n, names, args)
    ELSE LlamaResponses(n, names, args)

\* what call_func can do: return a response, or raise
CallResults(client_type, n, names, args) ==
    {[ok |-> TRUE, response |-> r] : r \in Responses(client_type, n, names, args)}
        \cup {[ok |-> FALSE, error |-> "APIError", text |-> "model call failed"]}

\* the model's answers to the first and to the second call of a turn
FirstResults(client_type)  == CallResults(client_type, MaxBlocks, LoopNames, Args)
SecondResults(client_type) == CallResults(client_type, 1, {"add"}, {[x |-> "7"]})

\* an adapter that puts the assistant message in front of the list
append_message_front(adapter, msgs, response) ==
    IF adapter = "ANTHROPIC"
    THEN <<[role |-> "assistant", content |-> response.content]>> \o msgs
    ELSE <<response.message>> \o msgs

\* AnthropicAdapter.append_message and LlamaAdapter.append_message
append_message(adapter, msgs, response) ==
    IF adapter = "ANTHROPIC"
    THEN Append(msgs, [role |-> "assistant", content |-> response.content])
    ELSE Append(msgs, response.message)

IsToolUse(block) == block.type = "tool_use"

Reverse(q) == [i \in 1..Len(q) |-> q[Len(q) + 1 - i]]

\* extract_tool_calls handing the calls back last-emitted first
extract_tool_calls_reversed(adapter, response) ==
    IF adapter = "ANTHROPIC"
    THEN Reverse(SelectSeq(response.content, IsToolUse))
    ELSE IF "tool_calls" \in DOMAIN response.message /\ response.message.tool_calls # <<>>
         THEN Reverse(response.message.tool_calls)
         ELSE <<>>

extract_tool_calls(adapter, response) ==
    IF adapter = "ANTHROPIC"
    THEN SelectSeq(response.content, IsToolUse)
    ELSE IF "tool_calls" \in DOMAIN response.message /\ response.message.tool_calls # <<>>
         THEN response.message.tool_calls
         ELSE <<>>

parse_tool_call(adapter, tool) ==
    IF adapter = "ANTHROPIC"
    THEN [id |-> tool.id, name |-> tool.name, args |-> tool.input]
    ELSE [name |-> tool.function.name, args |-> tool.function.arguments]

format_tool_response(adapter, tc, output) ==
    IF adapter = "ANTHROPIC"
    THEN [role |-> "user",
          content |-> <<[type |-> "tool_result", tool_use_id |-> tc.id,
                         content |-> Str(output)]>>]
    ELSE [role |-> "tool", content |-> Str(output), name |-> tc.name]

(***************************************************************************)
(* LLMClient                                                               *)
(***************************************************************************)
NoClient    == [client_type |-> None]
ClientTypes == {"ANTHROPIC", "OLLAMA"}
AllowLists  == {NoneSet, {}, {"add"}, {"add", "sub"}}

LLMClient_init(client_type, allowed_tools) ==
    /\ interleavable
    /\ client = NoClient
    /\ client' = [client_type |-> client_type, allowed_tools |-> allowed_tools]
    /\ UNCHANGED mcpVars
    /\ UNCHANGED <<tools, collections, last, pc, messages, tool_calls, idx,
                   toolcollection, toolcall, model_calls, executed, outcome>>

\* a get_tools that binds every registered tool whatever the allow-list says
get_tools_unfiltered(reg, allowed_tools) == construct(reg, available_tools(reg))

\* a get_tools that subtracts the allowed names in place of the excluded ones
get_tools_complement(reg, allowed_tools) ==
    IF allowed_tools = NoneSet THEN construct(reg, available_tools(reg))
    ELSE construct(reg, available_tools(reg) \ allowed_tools)

\* LLMClient.get_tools: the effective collection's tool_names, or ValueError
get_tools(reg, allowed_tools) ==
    LET all_tools == construct(reg, available_tools(reg))
    IN  IF allowed_tools = NoneSet THEN all_tools
        ELSE LET unknown == allowed_tools \ available_tools(reg)
             IN  IF unknown # {}
                 THEN [ok |-> FALSE, error |-> "ValueError",
                       what |-> "Unknown tools requested", names |-> unknown]
                 ELSE LET excluded == available_tools(reg) \ allowed_tools
                      IN  construct(reg, all_tools.tool_names \ excluded)

\* the arguments the loop hands to the tool (the sentinel rewrite of the
\* nullable parameters is commented out: they go through as supplied)
dispatch_args(schema_nullable, args) == args

\* the message list the caller passes in
Prompt       == <<[role |-> "user", content |-> "20 / 5?"]>>
UserMessages == {Prompt}

\* an invocation that has not returned yet
Pending == [type |-> "pending", text |-> ""]

NoCall    == [name |-> None]
NoOutcome == [pending |-> TRUE]

\* LLMClient.__call__ up to the call of _tool_loop
call(msgs) ==
    /\ pc \in {"idle", "returned", "raised"}
    /\ client # NoClient
    /\ messages' = msgs
    /\ tool_calls' = <<>>
    /\ idx' = 0
    /\ toolcall' = NoCall
    /\ model_calls' = <<>>
    /\ executed' = <<>>
    /\ toolcollection' = {}
    /\ LET g == get_tools(tools, client.allowed_tools)
       IN  IF g.ok
           THEN /\ pc' = "model"
                /\ outcome' = NoOutcome
           ELSE /\ pc' = "raised"
                /\ outcome' = g
    /\ UNCHANGED mcpVars
    /\ UNCHANGED <<tools, collections, last, client>>

\* an error handler that takes back what the turn appended
reraise_rolled_back(msgs) == SubSeq(msgs, 1, Len(Prompt))

\* _tool_loop: `except Exception` logs and raises again; the message list
\* stays as the turn left it
reraise(msgs) == msgs

\* _tool_loop: first call_func, append_message, extract_tool_calls, get_tools
model_first(r) ==
    /\ pc = "model"
    /\ model_calls' = Append(model_calls, r)
    /\ IF ~r.ok
       THEN /\ pc' = "raised"
            /\ outcome' = r
            /\ messages' = reraise(messages)
            /\ UNCHANGED <<tool_calls, idx, toolcollection>>
       ELSE LET calls == extract_tool_calls(client.client_type, r.response)
                g     == get_tools(tools, client.allowed_tools)
                msgs  == append_message(client.client_type, messages, r.response)
            IN  /\ messages' = IF g.ok THEN msgs ELSE reraise(msgs)
                /\ tool_calls' = calls
                /\ IF ~g.ok
                   THEN /\ pc' = "raised"
                        /\ outcome' = g
                        /\ UNCHANGED <<idx, toolcollection>>
                   ELSE /\ toolcollection' = g.tool_names
                        /\ IF calls = <<>>
                           THEN /\ pc' = "returned"
                                /\ outcome' = r
                                /\ UNCHANGED idx
                           ELSE /\ pc' = "dispatch"
                                /\ outcome' = NoOutcome
                                /\ idx' = 1
    /\ UNCHANGED mcpVars
    /\ UNCHANGED <<tools, collections, last, client, toolcall, executed>>

\* a loop that after the last tool call neither calls the model nor returns
next_pc_left_open == IF idx < Len(tool_calls) THEN "dispatch" ELSE "idle"

\* the loop returning after the last tool call without calling the model again
next_pc_no_recall == IF idx < Len(tool_calls) THEN "dispatch" ELSE "returned"

\* the for loop moves on to the next tool call, or to the second call_func
next_pc == IF idx < Len(tool_calls) THEN "dispatch" ELSE "recall"

\* _tool_loop: one iteration of the for loop up to the awaited invocation
dispatch ==
    /\ pc = "dispatch"
    /\ LET tc     == parse_tool_call(client.client_type, tool_calls[idx])
           schema == get(tools, tc.name)
           r      == resolve(tools, toolcollection, tc.name)
       IN  /\ toolcall' = tc
           /\ IF ~schema.ok
              THEN /\ pc' = "raised"
                   /\ outcome' = schema
                   /\ messages' = reraise(messages)
                   /\ UNCHANGED <<idx, executed>>
              ELSE IF ~contains(toolcollection, tc.name)
              THEN /\ pc' = next_pc
                   /\ idx' = idx + 1
                   /\ UNCHANGED <<messages, executed, outcome>>
              ELSE IF ~r.ok
              THEN /\ messages' = Append(messages,
                          format_tool_response(client.client_type, tc,
                              [type |-> r.error, text |-> r.what]))
                   /\ pc' = next_pc
                   /\ idx' = idx + 1
                   /\ UNCHANGED <<executed, outcome>>
              ELSE /\ pc' = "await"
                   /\ executed' = Append(executed,
                          [call |-> idx, name |-> tc.name, tool |-> r.tool,
                           args |-> dispatch_args(schema.tool.nullable, tc.args),
                           out |-> Pending])
                   /\ UNCHANGED <<idx, messages, outcome>>
    /\ UNCHANGED mcpVars
    /\ UNCHANGED <<tools, collections, last, client, tool_calls, toolcollection,
                   model_calls>>

\* an except clause that forgets AttributeError
CaughtErrors_value_only == {"ValueError"}

\* an except clause that catches every exception of the tool
CaughtErrors_all == {"AttributeError", "ValueError", "RuntimeError"}

\* except (AttributeError, ValueError)
CaughtErrors == {"AttributeError", "ValueError"}

\* _tool_loop: the awaited tool returns or raises
tool_done(out) ==
    /\ pc = "await"
    /\ LET output == await_ref(executed[Len(executed)].tool, out)
       IN  /\ executed' = [executed EXCEPT ![Len(executed)].out = output]
           /\ IF output.type = "value" \/ output.type \in CaughtErrors
              THEN /\ messages' = Append(messages,
                          format_tool_response(client.client_type, toolcall, output))
                   /\ pc' = next_pc
                   /\ idx' = idx + 1
                   /\ UNCHANGED outcome
              ELSE /\ pc' = "raised"
                   /\ outcome' = [ok |-> FALSE, error |-> output.type,
                                  text |-> output.text]
                   /\ messages' = reraise(messages)
                   /\ UNCHANGED idx
    /\ UNCHANGED mcpVars
    /\ UNCHANGED <<tools, collections, last, client, tool_calls, toolcollection,
                   toolcall, model_calls>>

\* _tool_loop: second call_func and return
model_second(r) ==
    /\ pc = "recall"
    /\ model_calls' = Append(model_calls, r)
    /\ pc' = IF r.ok THEN "returned" ELSE "raised"
    /\ outcome' = r
    /\ messages' = IF r.ok THEN messages ELSE reraise(messages)
    /\ UNCHANGED mcpVars
    /\ UNCHANGED <<tools, collections, last, client, tool_calls, idx,
                   toolcollection, toolcall, executed>>

(***************************************************************************)
(* ToolSchema and the schema generators                                    *)
(***************************************************************************)
\* an Optional field: None, or a value
NoneOpt == [some |-> FALSE]
Some(v) == [some |-> TRUE, val |-> v]

\* the ParameterSchema and ToolSchema values serialized: every optional
\* field absent and present, up to MaxParams parameters
ParameterSchemas ==
    [name : {"x"}, param_type : {"integer"},
     description : {NoneOpt, Some("what it is")},
     enum : {NoneOpt, Some(<<"a", "b">>)},
     nullable : {NoneOpt, Some(FALSE)}]
ToolSchemas ==
    [name : {"f"}, description : {"Function f"},
     parameters : SeqsUpTo(ParameterSchemas, MaxParams),
     required : {<<>>, <<"x">>}]

\* JSON values: null, texts, booleans, arrays and objects
JsonNull     == [t |-> "null"]
JsonText(v)  == [t |-> "string", v |-> v]
JsonBool(v)  == [t |-> "boolean", v |-> v]
JsonArray(v) == [t |-> "array", v |-> v]
JsonObject(v) == [t |-> "object", v |-> v]

dump_texts(seq) == JsonArray([i \in DOMAIN seq |-> JsonText(seq[i])])

\* model_dump_json of a ParameterSchema: every field is a key, None is null
dump_parameter(p) ==
    JsonObject([name |-> JsonText(p.name),
                param_type |-> JsonText(p.param_type),
                description |-> IF p.description.some
                                THEN JsonText(p.description.val) ELSE JsonNull,
                enum |-> IF p.enum.some THEN dump_texts(p.enum.val) ELSE JsonNull,
                nullable |-> IF p.nullable.some
                             THEN JsonBool(p.nullable.val) ELSE JsonNull])

\* ToolSchema.to_json
to_json(schema) ==
    JsonObject([name |-> JsonText(schema.name),
                description |-> JsonText(schema.description),
                parameters |-> JsonArray([i \in DOMAIN schema.parameters |->
                                            dump_parameter(schema.parameters[i])]),
                required |-> dump_texts(schema.required)])

\* validation of a value against str, bool, list[str] and Optional of them
is_text(j)  == j.t = "string"
is_bool(j)  == j.t = "boolean"
is_texts(j) == j.t = "array" /\ \A i \in DOMAIN j.v : is_text(j.v[i])
load_texts(j) == [i \in DOMAIN j.v |-> j.v[i].v]
load_text(j) == j.v
\* an Optional field left out or null
absent(obj, key) == key \notin DOMAIN obj \/ obj[key].t = "null"

\* a ParameterSchema validated from a dict: name and param_type are
\* required texts, the other fields default to None
valid_parameter(j) ==
    /\ j.t = "object"
    /\ {"name", "param_type"} \subseteq DOMAIN j.v
    /\ is_text(j.v.name) /\ is_text(j.v.param_type)
    /\ absent(j.v, "description") \/ is_text(j.v.description)
    /\ absent(j.v, "enum") \/ is_texts(j.v.enum)
    /\ absent(j.v, "nullable") \/ is_bool(j.v.nullable)

\* a ParameterSchema validated by fewer fields: the optional ones ignored
validate_parameter_required_only(j) ==
    [name |-> j.v.name.v, param_type |-> j.v.param_type.v,
     description |-> NoneOpt, enum |-> NoneOpt, nullable |-> NoneOpt]

\* the ParameterSchema built from a valid dict
validate_parameter(j) ==
    [name |-> j.v.name.v, param_type |-> j.v.param_type.v,
     description |-> IF absent(j.v, "description") THEN NoneOpt
                     ELSE Some(load_text(j.v.description)),
     enum |-> IF absent(j.v, "enum") THEN NoneOpt ELSE Some(load_texts(j.v.enum)),
     nullable |-> IF absent(j.v, "nullable") THEN NoneOpt
                  ELSE Some(load_text(j.v.nullable))]

\* ToolSchema.from_json: the four keys are read from the parsed data and
\* validated by the ToolSchema constructor
from_json(j) ==
    IF j.t # "object" THEN [ok |-> FALSE, error |-> "TypeError"]
    ELSE IF ~({"name", "description", "parameters", "required"} \subseteq DOMAIN j.v)
    THEN [ok |-> FALSE, error |-> "KeyError"]
    ELSE IF ~(/\ is_text(j.v.name) /\ is_text(j.v.description)
              /\ j.v.parameters.t = "array"
              /\ \A i \in DOMAIN j.v.parameters.v : valid_parameter(j.v.parameters.v[i])
              /\ is_texts(j.v.required))
    THEN [ok |-> FALSE, error |-> "ValidationError"]
    ELSE [ok |-> TRUE,
          schema |-> [name |-> j.v.name.v,
                      description |-> j.v.description.v,
                      parameters |-> [i \in DOMAIN j.v.parameters.v |->
                                        validate_parameter(j.v.parameters.v[i])],
                      required |-> load_texts(j.v.required)]]

\* a schema serialized and read back
json_round_trip(schema) ==
    /\ interleavable
    /\ last' = [op |-> "from_json", schema |-> schema, json |-> to_json(schema),
                back |-> from_json(to_json(schema))]
    /\ UNCHANGED <<tools, collections>>
    /\ UNCHANGED turnVars
    /\ UNCHANGED mcpVars

\* the functions a schema is generated for: a name and typed parameters
ParamNames == {"x", "y"}

\* a declared type: a plain type, or Optional of it; Any when undeclared
Annotation(type, optional) == [type |-> type, optional |-> optional]
\* a parameter of a signature: name, declared type, whether it has a default
Param(name, annotation, has_default) ==
    [name |-> name, annotation |-> annotation, has_default |-> has_default]

Funcs ==
    {[name |-> "f", params |-> ps] :
        ps \in {<<>>,
                <<Param("x", Annotation("int", FALSE), FALSE)>>,
                <<Param("x", Annotation("int", FALSE), FALSE),
                  Param("y", Annotation("int", FALSE), FALSE)>>}}

\* BasicSchemaGenerator._TYPE_MAP
TYPE_MAP ==
    [int |-> "integer", float |-> "number", str |-> "string",
     bool |-> "boolean", list |-> "array", dict |-> "object"]

\* the Enum classes a parameter may be declared with, and their values
EnumTypes == {"Color"}
EnumValues(type) == <<"red", "green">>

\* BasicSchemaGenerator._process_type
process_type(name, annotation) ==
    LET plain ==
            IF annotation.type \in EnumTypes
            THEN [name |-> name, param_type |-> "string", description |-> NoneOpt,
                  enum |-> Some(EnumValues(annotation.type)), nullable |-> NoneOpt]
            ELSE IF annotation.type \in DOMAIN TYPE_MAP
            THEN [name |-> name, param_type |-> TYPE_MAP[annotation.type],
                  description |-> NoneOpt, enum |-> NoneOpt, nullable |-> NoneOpt]
            ELSE [name |-> name, param_type |-> "string",
                  description |-> NoneOpt, enum |-> NoneOpt, nullable |-> NoneOpt]
    IN  IF annotation.optional THEN [plain EXCEPT !.nullable = Some(TRUE)] ELSE plain

\* a generator for which every parameter is required
is_required_always(param) == TRUE

\* param.default is Parameter.empty
is_required(param) == ~param.has_default

\* the loop over sig.parameters from parameter i on: self is skipped
RECURSIVE basic_loop(_, _, _, _)
basic_loop(params, i, parameters, required) ==
    IF i > Len(params) THEN [parameters |-> parameters, required |-> required]
    ELSE IF params[i].name = "self" THEN basic_loop(params, i + 1, parameters, required)
    ELSE basic_loop(params, i + 1,
                    Append(parameters, process_type(params[i].name, params[i].annotation)),
                    IF is_required(params[i])
                    THEN Append(required, params[i].name) ELSE required)

\* BasicSchemaGenerator.generate_schema of a function without docstring: one
\* ParameterSchema per parameter, every parameter without default required
BasicSchema(func) ==
    LET r == basic_loop(func.params, 1, <<>>, <<>>)
    IN  [name |-> func.name,
         description |-> "Function f",
         parameters |-> r.parameters,
         required |-> r.required]

\* the signatures reflected: self, a and b in any order and number, a and b
\* with a declared type and with or without a default
Annotations ==
    {Annotation("int", FALSE), Annotation("str", FALSE), Annotation("float", FALSE),
     Annotation("int", TRUE), Annotation("Path", FALSE), Annotation("Color", FALSE)}
SigNames == {"a", "b"}
SigParams ==
    {Param("self", Annotation("Any", FALSE), FALSE)}
        \cup {Param(n, a, d) : n \in SigNames, a \in Annotations, d \in BOOLEAN}
Distinct(ps) == \A i, j \in 1..Len(ps) : ps[i].name = ps[j].name => i = j
Signatures ==
    {[name |-> "f", params |-> ps] :
        ps \in {q \in SeqsUpTo(SigParams, Cardinality(SigNames) + 1) : Distinct(q)}}

\* a schema generated by reflection
basic_generate(func) ==
    /\ interleavable
    /\ last' = [op |-> "basic_schema", ok |-> TRUE, func |-> func,
                schema |-> BasicSchema(func)]
    /\ UNCHANGED <<tools, collections>>
    /\ UNCHANGED turnVars
    /\ UNCHANGED mcpVars

\* JSON values a model may answer with: an object with or without the keys
\* description and parameters, each parameter entry with or without its
\* description; and a JSON array
ParamEntries == {[k \in {} |-> ""], [k \in {"description"} |-> "what it is"]}
ParamObjects == UNION {[ps -> ParamEntries] : ps \in SUBSET ParamNames}
EnhancedObjects ==
    {[kind |-> "object", keys |-> {}]}
        \cup {[kind |-> "object", keys |-> {"description"}, description |-> "what f does"]}
        \cup {[kind |-> "object", keys |-> {"parameters"}, parameters |-> po] :
                 po \in ParamObjects}
        \cup {[kind |-> "object", keys |-> {"description", "parameters"},
               description |-> "what f does", parameters |-> po] : po \in ParamObjects}
JsonValues == EnhancedObjects \cup {[kind |-> "array"]}

\* what self.llm(messages) does: raise, or return a response whose content
\* is not a text, is JSON, or is no JSON but may hold a fenced block in
\* braces (itself JSON or not)
LlmResults ==
    {[ok |-> FALSE]}
        \cup {[ok |-> TRUE, content |-> "not a text"]}
        \cup {[ok |-> TRUE, content |-> "json", value |-> v] : v \in JsonValues}
        \cup {[ok |-> TRUE, content |-> "prose", fenced |-> "none"]}
        \cup {[ok |-> TRUE, content |-> "prose", fenced |-> "invalid"]}
        \cup {[ok |-> TRUE, content |-> "prose", fenced |-> "json", value |-> v] :
                 v \in EnhancedObjects}

\* not enhanced: None and the empty object are falsy
Falsy(v) == v.kind = "object" /\ v.keys = {}

\* the for loop over basic_schema.parameters from parameter i on: a KeyError
\* ends it with the schema as modified so far
RECURSIVE enhance_parameters(_, _, _)
enhance_parameters(schema, entries, i) ==
    IF i > Len(schema.parameters) THEN schema
    ELSE LET name == schema.parameters[i].name
         IN  IF name \notin DOMAIN entries
             THEN enhance_parameters(schema, entries, i + 1)
             ELSE IF "description" \notin DOMAIN entries[name]
             THEN schema
             ELSE enhance_parameters(
                      [schema EXCEPT !.parameters[i].description =
                                         Some(entries[name]["description"])],
                      entries, i + 1)

\* the last try block of generate_schema: basic_schema is modified in place,
\* first its description, then its parameters one by one
enhance(basic_schema, enhanced) ==
    IF enhanced.kind # "object" THEN basic_schema
    ELSE IF "description" \notin enhanced.keys THEN basic_schema
    ELSE LET described == [basic_schema EXCEPT !.description = enhanced.description]
         IN  IF Len(described.parameters) = 0 THEN described
             ELSE IF "parameters" \notin enhanced.keys THEN described
             ELSE enhance_parameters(described, enhanced.parameters, 1)

\* LLMSchemaGenerator.generate_schema
generate_schema(func, llm) ==
    LET basic_schema == BasicSchema(func)
    IN  IF ~llm.ok THEN basic_schema
        ELSE IF llm.content = "not a text" THEN basic_schema
        ELSE IF llm.content = "json"
        THEN enhance(basic_schema, llm.value)
        ELSE IF llm.fenced \in {"none", "invalid"} THEN basic_schema
        ELSE IF Falsy(llm.value) THEN basic_schema
        ELSE enhance(basic_schema, llm.value)

\* a schema generator asked for the schema of a function
generate(func, llm) ==
    /\ interleavable
    /\ last' = [op |-> "generate_schema", ok |-> TRUE, func |-> func, llm |-> llm,
                schema |-> generate_schema(func, llm)]
    /\ UNCHANGED <<tools, collections>>
    /\ UNCHANGED turnVars
    /\ UNCHANGED mcpVars

(***************************************************************************)
(* MCPConnectionManager and MCPToolLoader                                  *)
(***************************************************************************)
Servers == {"calc", "db"}

\* the fastmcp Client a server name is connected with (also the handle its
\* tool references would carry)
SessionOf(server) == IF server = "calc" THEN 1 ELSE 2

\* what the server side can do: client.ping(), client.list_tools() and
\* client.__aexit__() each return or raise
PingResults  == {[ok |-> TRUE], [ok |-> FALSE, error |-> "ConnectionError"]}
Listings     == {<<>>, <<"add">>, <<"add", "sub">>}
ListResults  == {[ok |-> TRUE, names |-> l] : l \in Listings}
                    \cup {[ok |-> FALSE, error |-> "McpError"]}
AexitResults == {[ok |-> TRUE], [ok |-> FALSE, error |-> "RuntimeError"]}

\* MCPConnectionManager.connect_server on the client dictionary cl
connect(cl, name, ping) ==
    IF name \in DOMAIN cl THEN [ok |-> TRUE, clients |-> cl]
    ELSE IF ping.ok
    THEN [ok |-> TRUE,
          clients |-> [n \in DOMAIN cl \cup {name} |->
                          IF n = name THEN SessionOf(name) ELSE cl[n]]]
    ELSE [ok |-> FALSE, clients |-> cl]

\* a list_tools that asks the server without looking at the connections
list_tools_of_unchecked(cl, server, lr) ==
    IF lr.ok
    THEN [ok |-> TRUE, listed |-> TRUE, names |-> lr.names]
    ELSE [ok |-> FALSE, listed |-> TRUE, error |-> lr.error, what |-> "listing"]

\* MCPConnectionManager.list_tools; listed tells whether the server was asked
list_tools_of(cl, server, lr) ==
    IF server \notin DOMAIN cl
    THEN [ok |-> FALSE, listed |-> FALSE, error |-> "ValueError", what |-> "not connected"]
    ELSE IF lr.ok
    THEN [ok |-> TRUE, listed |-> TRUE, names |-> lr.names]
    ELSE [ok |-> FALSE, listed |-> TRUE, error |-> lr.error, what |-> "listing"]

\* the fields of the MCPToolReference dataclass, and the keywords get_tools
\* constructs it with
ReferenceFields  == {"name", "description", "input_schema", "_session"}
GetToolsKeywords == {"name", "description", "input_schema", "_client"}

\* the generated __init__ of the dataclass: TypeError for a keyword that is
\* not a field (or a field that is not given)
MCPToolReference_init(keywords, name, handle) ==
    IF keywords = ReferenceFields
    THEN [ok |-> TRUE, ref |-> ToolRef(name, handle)]
    ELSE [ok |-> FALSE, error |-> "TypeError"]

\* MCPConnectionManager.get_tools: the registry it leaves and its result
discover(cl, reg, server, lr) ==
    IF server \notin DOMAIN cl
    THEN [tools |-> reg,
          res |-> [ok |-> FALSE, listed |-> FALSE, error |-> "ValueError",
                   what |-> "not connected"]]
    ELSE IF ~lr.ok
    THEN [tools |-> reg,
          res |-> [ok |-> FALSE, listed |-> TRUE, error |-> lr.error,
                   what |-> "listing"]]
    ELSE LET made == [i \in 1..Len(lr.names) |->
                         MCPToolReference_init(GetToolsKeywords, lr.names[i], cl[server])]
         IN  IF \E i \in 1..Len(made) : ~made[i].ok
             THEN [tools |-> reg,
                   res |-> [ok |-> FALSE, listed |-> TRUE, error |-> "TypeError",
                            what |-> "unexpected keyword argument"]]
             ELSE LET refs == [i \in 1..Len(made) |-> made[i].ref]
                      reg2 == register_all(reg, refs)
                  IN  [tools |-> reg2,
                       res |-> [listed |-> TRUE]
                                  @@ construct(reg2, {Str_tool(t) : t \in Range(refs)})]

\* a disconnect that forgets the server whether or not its teardown raised
disconnect_forgetting(cl, name, ax) ==
    IF name \notin DOMAIN cl THEN [clients |-> cl, logged |-> FALSE]
    ELSE [clients |-> [n \in DOMAIN cl \ {name} |-> cl[n]], logged |-> ~ax.ok]

\* MCPConnectionManager.disconnect_server: an error of __aexit__ is logged,
\* not raised, and the client is then kept
disconnect(cl, name, ax) ==
    IF name \notin DOMAIN cl THEN [clients |-> cl, logged |-> FALSE]
    ELSE IF ax.ok
    THEN [clients |-> [n \in DOMAIN cl \ {name} |-> cl[n]], logged |-> FALSE]
    ELSE [clients |-> cl, logged |-> TRUE]

RECURSIVE disconnect_each(_, _, _)
disconnect_each(cl, names, axs) ==
    IF names = {} THEN [ok |-> TRUE, clients |-> cl, logged |-> {}]
    ELSE LET n    == CHOOSE m \in names : TRUE
             d    == disconnect(cl, n, axs[n])
             rest == disconnect_each(d.clients, names \ {n}, axs)
         IN  [ok |-> TRUE, clients |-> rest.clients,
              logged |-> rest.logged \cup (IF d.logged THEN {n} ELSE {})]

\* a disconnect_all that lets the error of a disconnect propagate
disconnect_all_of_raising(cl, axs) ==
    IF \E n \in DOMAIN cl : ~axs[n].ok
    THEN [ok |-> FALSE, clients |-> cl, logged |-> {}]
    ELSE disconnect_each(cl, DOMAIN cl, axs)

\* MCPConnectionManager.disconnect_all over the servers connected at the call
disconnect_all_of(cl, axs) == disconnect_each(cl, DOMAIN cl, axs)

connect_server(name, ping) ==
    /\ interleavable
    /\ LET c == connect(clients, name, ping)
       IN  /\ clients' = c.clients
           /\ last' = [op |-> "connect_server", server |-> name,
                       before |-> DOMAIN clients, pinged |-> ping.ok, ok |-> c.ok]
    /\ UNCHANGED <<tools, collections>>
    /\ UNCHANGED turnVars
    /\ UNCHANGED connecting

list_tools(name, lr) ==
    /\ interleavable
    /\ last' = [op |-> "list_tools", server |-> name, before |-> DOMAIN clients]
                   @@ list_tools_of(clients, name, lr)
    /\ UNCHANGED <<tools, collections, clients>>
    /\ UNCHANGED turnVars
    /\ UNCHANGED connecting

\* MCPConnectionManager.get_tools
manager_get_tools(name, lr) ==
    /\ interleavable
    /\ LET d == discover(clients, tools, name, lr)
       IN  /\ tools' = d.tools
           /\ Constructed([op |-> "get_tools", server |-> name,
                            before |-> DOMAIN clients, listing |-> lr], d.res)
    /\ UNCHANGED clients
    /\ UNCHANGED turnVars
    /\ UNCHANGED connecting

\* MCPToolLoader.load_server: connect_server, then get_tools
load_server(name, ping, lr) ==
    /\ interleavable
    /\ LET c == connect(clients, name, ping)
           d == discover(c.clients, tools, name, lr)
       IN  /\ clients' = c.clients
           /\ IF ~c.ok
              THEN /\ last' = [op |-> "load_server", server |-> name,
                               before |-> DOMAIN clients, connected |-> FALSE,
                               ok |-> FALSE, error |-> ping.error]
                   /\ UNCHANGED <<tools, collections>>
              ELSE /\ tools' = d.tools
                   /\ Constructed([op |-> "load_server", server |-> name,
                                    before |-> DOMAIN clients, connected |-> TRUE,
                                    listing |-> lr], d.res)
    /\ UNCHANGED turnVars
    /\ UNCHANGED connecting

\* a disconnect that also drops the registry entries of the server's tools
disconnect_server_unregistering(name, ax) ==
    /\ interleavable
    /\ LET d == disconnect(clients, name, ax)
       IN  /\ clients' = d.clients
           /\ last' = [op |-> "disconnect_server", server |-> name,
                       before |-> DOMAIN clients, torn_down |-> ax.ok,
                       ok |-> TRUE, logged |-> d.logged]
    /\ tools' = [n \in {m \in DOMAIN tools : tools[m].session # SessionOf(name)} |->
                    tools[n]]
    /\ UNCHANGED collections
    /\ UNCHANGED turnVars
    /\ UNCHANGED connecting

\* MCPConnectionManager.disconnect_server
disconnect_server(name, ax) ==
    /\ interleavable
    /\ LET d == disconnect(clients, name, ax)
       IN  /\ clients' = d.clients
           /\ last' = [op |-> "disconnect_server", server |-> name,
                       before |-> DOMAIN clients, torn_down |-> ax.ok,
                       ok |-> TRUE, logged |-> d.logged]
    /\ UNCHANGED <<tools, collections>>
    /\ UNCHANGED turnVars
    /\ UNCHANGED connecting

\* disconnect_all; last keeps the servers whose __aexit__ raised
disconnect_all(axs) ==
    /\ interleavable
    /\ LET d == disconnect_all_of(clients, axs)
       IN  /\ clients' = d.clients
           /\ last' = [op |-> "disconnect_all", before |-> DOMAIN clients,
                       failed |-> {n \in DOMAIN clients : ~axs[n].ok},
                       ok |-> d.ok, logged |-> d.logged]
    /\ UNCHANGED <<tools, collections>>
    /\ UNCHANGED turnVars
    /\ UNCHANGED connecting

\* The steps of one connect_server call.  The call checks _clients and
\* creates its Client without suspending; it is suspended while the client
\* is entered and pinged, and again while the client is left.
CreateResults == {[ok |-> TRUE], [ok |-> FALSE, error |-> "ValueError"]}

\* the Client objects there can be at a time, and the next one created
Handles == 1..(Cardinality(Servers) + MaxConnecting)
InUse   == {clients[n] : n \in DOMAIN clients} \cup {t.client : t \in connecting}
NewClient ==
    CHOOSE h \in Handles : h \notin InUse /\ \A g \in Handles : g < h => g \in InUse

ConnectOutcome(name, already, created, pinged, exited) ==
    [op |-> "connect_server", server |-> name, already |-> already,
     created |-> created, pinged |-> pinged, exited |-> exited,
     ok |-> already \/ (created /\ pinged /\ exited)]

\* self._clients[name] = client
store(cl, name, handle) ==
    [n \in DOMAIN cl \cup {name} |-> IF n = name THEN handle ELSE cl[n]]

\* a connect that stores its client before the ping has answered
pinged_stored_first(cl, name, handle, ping) == store(cl, name, handle)

\* `await client.ping()` and the line after it: the client is stored when
\* the ping returns, and not when it raises
pinged(cl, name, handle, ping) ==
    IF ping.ok THEN store(cl, name, handle) ELSE cl

\* connect_server up to `async with client`: return when the name is
\* connected, raise when the Client cannot be created, else suspend
connect_enter(name, created) ==
    /\ interleavable
    /\ IF name \in DOMAIN clients
       THEN /\ last' = ConnectOutcome(name, TRUE, FALSE, FALSE, FALSE)
            /\ UNCHANGED connecting
       ELSE IF ~created.ok
       THEN /\ last' = ConnectOutcome(name, FALSE, FALSE, FALSE, FALSE)
            /\ UNCHANGED connecting
       ELSE /\ Cardinality(connecting) < MaxConnecting
            /\ connecting' = connecting \cup
                    {[server |-> name, client |-> NewClient, at |-> "ping"]}
            /\ last' = [op |-> "connect_enter", server |-> name, ok |-> TRUE,
                        client |-> NewClient]
    /\ UNCHANGED <<tools, collections, clients>>
    /\ UNCHANGED turnVars

\* connect_server resumed after the ping: store the client, or raise
connect_ping(t, ping) ==
    /\ interleavable
    /\ t \in connecting
    /\ t.at = "ping"
    /\ clients' = pinged(clients, t.server, t.client, ping)
    /\ IF ping.ok
       THEN /\ connecting' = (connecting \ {t}) \cup {[t EXCEPT !.at = "exit"]}
            /\ last' = [op |-> "connect_stored", server |-> t.server, ok |-> TRUE,
                        client |-> t.client, before |-> DOMAIN clients]
       ELSE /\ connecting' = connecting \ {t}
            /\ last' = ConnectOutcome(t.server, FALSE, TRUE, FALSE, FALSE)
    /\ UNCHANGED <<tools, collections>>
    /\ UNCHANGED turnVars

\* connect_server resumed after the client was left: return, or raise
connect_exit(t, ax) ==
    /\ interleavable
    /\ t \in connecting
    /\ t.at = "exit"
    /\ connecting' = connecting \ {t}
    /\ last' = ConnectOutcome(t.server, FALSE, TRUE, TRUE, ax.ok)
    /\ UNCHANGED <<tools, collections, clients>>
    /\ UNCHANGED turnVars

(***************************************************************************)
(* Specifications                                                          *)
(***************************************************************************)
Init ==
    /\ tools = EmptyRegistry
    /\ collections = {}
    /\ last = [op |-> "none", ok |-> TRUE]
    /\ client = NoClient
    /\ pc = "idle"
    /\ messages = <<>>
    /\ tool_calls = <<>>
    /\ idx = 0
    /\ toolcollection = {}
    /\ toolcall = NoCall
    /\ model_calls = <<>>
    /\ executed = <<>>
    /\ outcome = NoOutcome
    /\ clients = NoClients
    /\ connecting = {}

\* the lists from_tools is called with
FromToolsInputs == SeqsUpTo(ListedRefs, MaxFromTools)

\* the lists __sub__ is called with
ListOperands == SeqsUpTo({"sub", "div"}, 2)

\* right operands of __sub__: a collection, a set, a list, a bare string
SubOperands ==
    {[type |-> "ToolCollection", tool_names |-> c] : c \in collections}
        \cup {[type |-> "set", val |-> s] : s \in SUBSET Names}
        \cup {[type |-> "list", val |-> s] : s \in ListOperands}
        \cup {[type |-> "str", val |-> n] : n \in LoopNames}

\* registry and collection operations, the registry never reset
NoResetNext ==
    \/ \E t \in ListedRefs : register(t)
    \/ \E ns \in (SUBSET Names) \cup {NoneSet} : ToolCollection_init(ns)
    \/ \E ts \in FromToolsInputs : from_tools(ts)
    \/ \E a, b \in collections : mul(a, b)
    \/ \E a \in collections, o \in SubOperands : sub(a, o)

NoResetSpec == Init /\ [][NoResetNext]_vars

\* registry and collection operations
Next ==
    \/ NoResetNext
    \/ reset

Spec == Init /\ [][Next]_vars

\* the registry registered into, read and reset
RegistryNext ==
    \/ \E t \in ToolRefs : register(t)
    \/ \E ts \in FromToolsInputs : from_tools(ts)
    \/ \E n \in Names : registry_get(n)
    \/ reset

RegistrySpec == Init /\ [][RegistryNext]_vars

\* the reference lists of two servers that both expose add: calc (client 1)
\* lists add and sub, db (client 2) lists add and div
ServerLoads == {<<ToolRef("add", 1), ToolRef("sub", 1)>>,
                <<ToolRef("add", 2), ToolRef("div", 2)>>}

\* the tools of two servers loaded into the one registry and invoked
CollideNext ==
    \/ \E ts \in ServerLoads : from_tools(ts)
    \/ \E c \in collections, n \in Names, a \in Args, out \in DirectOutcomes :
          invoke(c, n, a, out)
    \/ reset

CollideSpec == Init /\ [][CollideNext]_vars

\* schemas generated and serialized
SchemaNext ==
    \/ \E f \in Funcs, llm \in LlmResults : generate(f, llm)
    \/ \E schema \in ToolSchemas : json_round_trip(schema)

SchemaSpec == Init /\ [][SchemaNext]_vars

\* schemas generated by reflection
ReflectNext ==
    \/ \E f \in Signatures : basic_generate(f)

ReflectSpec == Init /\ [][ReflectNext]_vars

\* connect_server calls overlapping each other and disconnects
ConnectTasks ==
    [server : Servers, client : Handles, at : {"ping", "exit"}]

ConnectNext ==
    \/ \E n \in Servers, cr \in CreateResults : connect_enter(n, cr)
    \/ \E t \in ConnectTasks, p \in PingResults : connect_ping(t, p)
    \/ \E t \in ConnectTasks, ax \in AexitResults : connect_exit(t, ax)
    \/ \E n \in Servers, ax \in AexitResults : disconnect_server(n, ax)

ConnectSpec == Init /\ [][ConnectNext]_vars

\* servers connected, asked for their tools, loaded and disconnected
McpNext ==
    \/ \E t \in LoopRefs : register(t)
    \/ \E ts \in ServerLoads : from_tools(ts)
    \/ \E n \in Servers, p \in PingResults : connect_server(n, p)
    \/ \E n \in Servers, lr \in ListResults : list_tools(n, lr)
    \/ \E n \in Servers, lr \in ListResults : manager_get_tools(n, lr)
    \/ \E n \in Servers, p \in PingResults, lr \in ListResults : load_server(n, p, lr)
    \/ \E n \in Servers, ax \in AexitResults : disconnect_server(n, ax)
    \/ \E axs \in [DOMAIN clients -> AexitResults] : disconnect_all(axs)

McpSpec == Init /\ [][McpNext]_vars

\* collections invoked by a caller over a registry of remote references and
\* of function tools
CallNext ==
    \/ \E t \in CallRefs : register(t)
    \/ reset
    \/ \E ns \in SUBSET LoopNames : ToolCollection_init(ns)
    \/ \E c \in collections, n \in LoopNames, a \in Args, out \in DirectOutcomes :
          invoke(c, n, a, out)
    \/ \E c \in collections, order \in Orders(LoopNames) : get_schemas(c, order)

CallSpec == Init /\ [][CallNext]_vars

\* one client running turns while the registry is registered into and reset
LoopNext ==
    \/ \E t \in LoopRefs : register(t)
    \/ reset
    \/ \E ct \in ClientTypes, al \in AllowLists : LLMClient_init(ct, al)
    \/ \E m \in UserMessages : call(m)
    \/ pc = "model" /\ \E r \in FirstResults(client.client_type) : model_first(r)
    \/ dispatch
    \/ \E out \in ToolOutcomes : tool_done(out)
    \/ pc = "recall" /\ \E r \in SecondResults(client.client_type) : model_second(r)

LoopSpec == Init /\ [][LoopNext]_vars

\* the steps of a running turn: the loop's own code between two suspension
\* points, a model call that returns or raises, an awaited tool invocation
\* that returns or raises
TurnStep ==
    \/ pc = "model" /\ \E r \in FirstResults(client.client_type) : model_first(r)
    \/ dispatch
    \/ \E out \in ToolOutcomes : tool_done(out)
    \/ pc = "recall" /\ \E r \in SecondResults(client.client_type) : model_second(r)

\* a running turn is not suspended for ever: every model call and every
\* tool invocation comes back
LoopLiveSpec == Init /\ [][LoopNext]_vars /\ WF_vars(TurnStep)

(***************************************************************************)
(* Properties of the tool loop (checked under LoopSpec)                    *)
(***************************************************************************)
ExpectedErrors == {"ValueError", "AttributeError"}

\* the response asks for at least one tool
RequestsTool(client_type, response) ==
    IF client_type = "ANTHROPIC"
    THEN \E i \in 1..Len(response.content) : response.content[i].type = "tool_use"
    ELSE /\ "tool_calls" \in DOMAIN response.message
         /\ Len(response.message.tool_calls) > 0

\* the messages the loop appended after the assistant message
ToolResponses == SubSeq(messages, Len(Prompt) + 2, Len(messages))

\* where in the first response the model emitted the call of invocation e
EmitPos(e) ==
    IF client.client_type = "ANTHROPIC" THEN tool_calls[e.call].id ELSE e.call

\* invocation e runs the call the first response holds at that position
MatchesFirstResponse(e) ==
    LET first == model_calls[1].response
    IN  IF client.client_type = "ANTHROPIC"
        THEN /\ EmitPos(e) \in 1..Len(first.content)
             /\ first.content[EmitPos(e)].type = "tool_use"
             /\ first.content[EmitPos(e)].name = e.name
        ELSE /\ "tool_calls" \in DOMAIN first.message
             /\ EmitPos(e) \in 1..Len(first.message.tool_calls)
             /\ first.message.tool_calls[EmitPos(e)].function.name = e.name

\* message m answers invocation e
AnswersCall(m, e) ==
    IF client.client_type = "ANTHROPIC"
    THEN /\ m.role = "user"
         /\ Len(m.content) = 1
         /\ m.content[1].type = "tool_result"
         /\ m.content[1].tool_use_id = EmitPos(e)
    ELSE /\ m.role = "tool"
         /\ m.name = e.name

ResponseText(m) ==
    IF client.client_type = "ANTHROPIC" THEN m.content[1].content ELSE m.content

Answered(e) == e.out.type \in {"value"} \cup ExpectedErrors

\* C1: a turn that returns has called the model once when the first response
\* requested no tool and twice when it requested one; it returns the response
\* of the last model call, and every tool it ran is a call of the first response.
C1_OneRecall ==
    pc = "returned" =>
        /\ \A i \in 1..Len(model_calls) : model_calls[i].ok
        /\ Len(model_calls) =
              IF RequestsTool(client.client_type, model_calls[1].response) THEN 2 ELSE 1
        /\ outcome = model_calls[Len(model_calls)]
        /\ \A k \in 1..Len(executed) : MatchesFirstResponse(executed[k])

C1_Witness ==
    /\ pc = "returned"
    /\ Len(model_calls) = 2
    /\ RequestsTool(client.client_type, model_calls[2].response)
    /\ Len(executed) >= 1

\* C2: the tools of one response run one at a time in the order the model
\* emitted the calls, and their tool-response messages are appended in that order.
C2_InOrder ==
    /\ \A k \in 1..Len(executed) :
          /\ k < Len(executed) => Answered(executed[k])
          /\ MatchesFirstResponse(executed[k])
          /\ \A j \in 1..(k - 1) : EmitPos(executed[j]) < EmitPos(executed[k])
    /\ Len(ToolResponses) = Cardinality({k \in 1..Len(executed) : Answered(executed[k])})
    /\ \A k \in 1..Len(ToolResponses) : AnswersCall(ToolResponses[k], executed[k])

C2_Witness ==
    /\ pc = "recall"
    /\ Len(executed) = 2
    /\ executed[1].name # executed[2].name
    /\ Len(ToolResponses) = 2

\* C3: a tool that raises ValueError or AttributeError gets exactly one tool
\* response carrying the error's text; the loop goes on to the remaining
\* calls, and a turn that returns has called the model a second time.
C3_ExpectedErrorAnswered ==
    \A k \in 1..Len(executed) :
        executed[k].out.type \in ExpectedErrors =>
            /\ idx > executed[k].call
            /\ Len(ToolResponses) \in k..Len(executed)
            /\ AnswersCall(ToolResponses[k], executed[k])
            /\ ResponseText(ToolResponses[k]) = executed[k].out.text
            /\ pc \in {"dispatch", "await", "recall", "returned", "raised"}
            /\ pc = "returned" => Len(model_calls) = 2

C3_Witness ==
    /\ pc = "returned"
    /\ Len(executed) = 2
    /\ executed[1].out.type = "AttributeError"
    /\ executed[2].out.type = "value"
    /\ Len(model_calls) = 2

\* C4: a tool that raises any other error aborts the turn with that error:
\* no later call of the response runs and the model is not called again.
C4_OtherErrorAborts ==
    \A k \in 1..Len(executed) :
        executed[k].out.type \notin ({"pending", "value"} \cup ExpectedErrors) =>
            /\ pc = "raised"
            /\ outcome.error = executed[k].out.type
            /\ k = Len(executed)
            /\ idx = executed[k].call
            /\ Len(model_calls) = 1

C4_Witness ==
    /\ pc = "raised"
    /\ Len(tool_calls) = 2
    /\ idx = 1
    /\ Len(executed) = 1
    /\ executed[1].out.type = "RuntimeError"
    /\ parse_tool_call(client.client_type, tool_calls[2]).name \in toolcollection

\* the name the model asks for in the i-th extracted tool call
RequestedName(i) == parse_tool_call(client.client_type, tool_calls[i]).name

\* C5: a call that names a tool outside the bound collection, registered or
\* not, is skipped: the turn does not abort at that call and the tool is not run.
C5_OutsideCollectionSkipped ==
    \A i \in 1..Len(tool_calls) :
        RequestedName(i) \notin toolcollection =>
            /\ ~(pc = "raised" /\ idx = i)
            /\ \A k \in 1..Len(executed) : executed[k].call # i

\* C6: with an allow-list configured, every tool the loop runs is named in it.
C6_AllowListOnly ==
    (client # NoClient /\ client.allowed_tools # NoneSet) =>
        \A k \in 1..Len(executed) : executed[k].name \in client.allowed_tools

C6_Witness ==
    /\ pc = "returned"
    /\ client.allowed_tools = {"add"}
    /\ "sub" \in DOMAIN tools
    /\ Len(tool_calls) = 2
    /\ RequestedName(1) = "sub"
    /\ Len(executed) = 1
    /\ executed[1].name = "add"

\* the values the loop is to read as "no value" for a nullable parameter
Sentinels == {None, "", "null", "None"}

\* C7: a tool is handed None for every nullable parameter whose supplied value
\* is a sentinel, and the supplied value for every other parameter.
C7_NullableSentinelsCoerced ==
    \A k \in 1..Len(executed) :
        LET e        == executed[k]
            supplied == parse_tool_call(client.client_type, tool_calls[e.call]).args
        IN  e.args.x = IF e.tool.nullable /\ supplied.x \in Sentinels
                       THEN None
                       ELSE supplied.x

(***************************************************************************)
(* Properties of the registry and the collections                          *)
(***************************************************************************)
\* C8: invoking a name outside the collection's own name set fails with the
\* not-in-this-collection error, whether the name is registered or not, and
\* runs no tool.
C8_NotInCollectionFirst ==
    (last.op = "call" /\ last.name \notin last.c) =>
        /\ ~last.ran
        /\ last.error = "ValueError"
        /\ last.what = "not in this collection"

C8_Witness ==
    /\ last.op = "call"
    /\ last.c # {}
    /\ last.name \notin last.c
    /\ last.name \notin DOMAIN tools
    /\ ~last.ran

\* C9: constructing a collection from a name set fails exactly when a name is
\* absent from the registry, the error then names the set of absent names;
\* otherwise a collection over the name set is created.
C9_UnknownToolNamed ==
    [][\A ns \in SUBSET Names :
          (last'.op = "init" /\ ToolCollection_init(ns)) =>
              IF ns \subseteq DOMAIN tools
              THEN /\ last'.ok
                   /\ collections' = collections \cup {ns}
              ELSE /\ ~last'.ok
                   /\ last'.error = "ValueError"
                   /\ last'.names = ns \ DOMAIN tools
                   /\ collections' = collections]_vars

C9_Witness ==
    /\ last.op = "init"
    /\ ~last.ok
    /\ DOMAIN tools = {"add"}
    /\ last.names = {"sub", "div"}

\* C10: while the registry is never reset, the name set of every constructed
\* collection is a subset of the registered names.
C10_CollectionsRegistered ==
    \A c \in collections : c \subseteq DOMAIN tools

C10_Witness ==
    /\ Cardinality(collections) = 2
    /\ last.op = "sub"
    /\ last.ok
    /\ last.tool_names = {"add"}
    /\ {"add", "sub"} \in collections
    /\ DOMAIN tools = Names

(***************************************************************************)
(* Properties of the registry (checked under RegistrySpec)                 *)
(***************************************************************************)
\* C11: registering a tool binds its name to that tool, replacing the entry
\* the name had (last write wins); the registered names are the former names
\* and that name, one entry each, and every other name keeps its entry.
C11_LastWriteWins ==
    [][\A t \in ToolRefs :
          (last'.op = "register" /\ last'.tool = t /\ register(t)) =>
              /\ DOMAIN tools' = DOMAIN tools \cup {Str_tool(t)}
              /\ tools'[Str_tool(t)] = t
              /\ Str_tool(t) \in DOMAIN tools => DOMAIN tools' = DOMAIN tools
              /\ \A n \in DOMAIN tools \ {Str_tool(t)} : tools'[n] = tools[n]]_vars

C11_Witness ==
    /\ last.op = "register"
    /\ last.replaced
    /\ last.tool = ToolRef("add", 1)
    /\ tools["add"] = ToolRef("add", 1)
    /\ DOMAIN tools = {"add", "sub"}
    /\ tools["sub"] = ToolRef("sub", 2)

\* C12: get of a name yields the tool most recently registered under it: the
\* tool of a register call is what get yields right after it, and a get call
\* returns the registry's entry for the name; get of a name with no entry
\* fails with ValueError naming it.  A get leaves the registry as it was.
C12_GetMostRecent ==
    [][/\ \A t \in ToolRefs :
             (last'.op = "register" /\ last'.tool = t /\ register(t)) =>
                 get(tools', Str_tool(t)) = [ok |-> TRUE, tool |-> t]
       /\ \A n \in Names :
             (last'.op = "get" /\ last'.name = n /\ registry_get(n)) =>
                 /\ tools' = tools
                 /\ IF n \in DOMAIN tools
                    THEN /\ last'.ok
                         /\ last'.tool = tools[n]
                    ELSE /\ ~last'.ok
                         /\ last'.error = "ValueError"
                         /\ last'.what = "not registered"
                         /\ last'.names = {n}]_vars

\* get("add") returns the session-1 reference registered after from_tools
\* had registered the session-2 reference of the same name
C12_Witness ==
    /\ last.op = "get"
    /\ last.name = "add"
    /\ last.ok
    /\ last.tool = ToolRef("add", 1)
    /\ {"add"} \in collections
    /\ DOMAIN tools = {"add", "div"}

(***************************************************************************)
(* Properties of union and difference                                      *)
(***************************************************************************)
\* a collection handed to __sub__ as its right operand
AsCollection(B) == [type |-> "ToolCollection", tool_names |-> B]

\* the names an operand of __sub__ holds
OperandNames(o) ==
    IF o.type = "ToolCollection" THEN o.tool_names
    ELSE IF o.type = "set" THEN o.val
    ELSE {o.val[i] : i \in 1..Len(o.val)}

\* C13: the union of two collections over registered names is the collection
\* of the names of either; union is commutative, associative and idempotent.
\* A union the program has computed is the union of its two operands.
C13_UnionLaws ==
    /\ \A A, B \in SUBSET DOMAIN tools :
          LET AB == mul_names(tools, A, B)
          IN  /\ AB.ok
              /\ AB.tool_names = A \cup B
              /\ mul_names(tools, B, A) = AB
              /\ mul_names(tools, A, A).tool_names = A
              /\ \A C \in SUBSET DOMAIN tools :
                    mul_names(tools, AB.tool_names, C)
                        = mul_names(tools, A, mul_names(tools, B, C).tool_names)
    /\ last.op = "mul" =>
          /\ last.ok
          /\ last.tool_names = last.left \cup last.right
          /\ last.tool_names \in collections

C13_Witness ==
    /\ last.op = "mul"
    /\ last.left = {"add", "sub"}
    /\ last.right = {"sub", "div"}
    /\ last.tool_names = Names
    /\ Cardinality(collections) = 3

\* C14: the difference of a collection A and an operand B holds the names of
\* A that are not in B, names of B outside A being ignored, and is the same
\* for B given as a collection, as a set and as a list of the same names.
C14_DifferenceShapes ==
    /\ \A A \in collections :
          /\ \A o \in {p \in SubOperands : p.type # "str"} :
                /\ sub_names(tools, A, o).ok
                /\ sub_names(tools, A, o).tool_names = A \ OperandNames(o)
          /\ \A B \in SUBSET Names, l \in ListOperands :
                Range(l) = B =>
                    /\ sub_names(tools, A, [type |-> "set", val |-> B])
                           = sub_names(tools, A, [type |-> "list", val |-> l])
                    /\ sub_names(tools, A, [type |-> "set", val |-> B])
                           = sub_names(tools, A, AsCollection(B))
    /\ (last.op = "sub" /\ last.other.type # "str") =>
          /\ last.ok
          /\ last.tool_names = last.left \ OperandNames(last.other)
          /\ last.tool_names \in collections

\* {add, sub} - ["sub", "div"]: div is not a name of the left operand
C14_Witness ==
    /\ last.op = "sub"
    /\ last.left = {"add", "sub"}
    /\ last.other = [type |-> "list", val |-> <<"sub", "div">>]
    /\ last.ok
    /\ last.tool_names = {"add"}

\* C15: for collections A and B over registered names, (A * B) - B holds
\* names of A only, and is A exactly when A and B share no name.
C15_UnionThenDifference ==
    \A A, B \in SUBSET DOMAIN tools :
        LET AB == mul_names(tools, A, B)
            D  == sub_names(tools, AB.tool_names, AsCollection(B))
        IN  /\ AB.ok
            /\ D.ok
            /\ D.tool_names \subseteq A
            /\ D.tool_names = A <=> A \cap B = {}

\* ({add} * {sub}) - {sub} has given {add} back
C15_Witness ==
    /\ last.op = "sub"
    /\ last.left = {"add", "sub"}
    /\ last.other = AsCollection({"sub"})
    /\ last.ok
    /\ last.tool_names = {"add"}
    /\ collections = {{"add"}, {"sub"}, {"add", "sub"}}

\* C16: subtracting a bare string from a collection fails with TypeError;
\* no collection is created and the collections and the registry stay as
\* they were.
C16_StringOperandTypeError ==
    [][(last'.op = "sub" /\ last' # last /\ last'.other.type = "str") =>
          /\ sub(last'.left, last'.other)
          /\ ~last'.ok
          /\ last'.error = "TypeError"
          /\ collections' = collections
          /\ tools' = tools]_vars

C16_Witness ==
    /\ last.op = "sub"
    /\ last.left = {"add", "sub"}
    /\ last.other = [type |-> "str", val |-> "sub"]
    /\ ~last.ok
    /\ last.error = "TypeError"
    /\ {"add", "sub"} \in collections

\* C17: a union or a difference leaves the registry and its operands as they
\* were and, when it succeeds, adds its result to the collections; no step of
\* the program changes or removes the name set of a collection constructed
\* before it.
C17_OperandsUnchanged ==
    [][/\ collections \subseteq collections'
       /\ (last'.op \in {"mul", "sub"} /\ last' # last) =>
             /\ tools' = tools
             /\ last'.left \in collections /\ last'.left \in collections'
             /\ last'.op = "mul" =>
                   last'.right \in collections /\ last'.right \in collections'
             /\ (last'.op = "sub" /\ last'.other.type = "ToolCollection") =>
                   /\ last'.other.tool_names \in collections
                   /\ last'.other.tool_names \in collections'
             /\ collections' = IF last'.ok
                               THEN collections \cup {last'.tool_names}
                               ELSE collections]_vars

\* {add} * {sub} has been computed and both operands are still there
C17_Witness ==
    /\ last.op = "mul"
    /\ last.left = {"add"}
    /\ last.right = {"sub"}
    /\ last.tool_names = {"add", "sub"}
    /\ collections = {{"add"}, {"sub"}, {"add", "sub"}}

(***************************************************************************)
(* Properties of invocation and of the client's effective collection       *)
(***************************************************************************)
\* C18: invoking a member name runs the registry's entry for the name on the
\* arguments and hands back what the entry produced (its value or its
\* error), for a function tool as for a remote reference.
C18_InvokeReturnsResult ==
    (last.op = "call" /\ last.ran) =>
        /\ last.name \in last.c
        /\ last.result = last.out

\* C19: a client is constructed only with no allow-list or with an allow-list
\* whose names are all registered.
C19_AllowListCheckedAtConstruction ==
    [][\A ct \in ClientTypes, al \in AllowLists :
          LLMClient_init(ct, al) => (al = NoneSet \/ al \subseteq DOMAIN tools)]_vars

\* C20: the collection a turn binds after a model response holds every
\* registered name when the client has no allow-list, and exactly the names
\* of the allow-list when it has one whose names are all registered.
C20_EffectiveCollection ==
    [][(pc = "model" /\ pc' # "model" /\ model_calls'[1].ok) =>
          IF client.allowed_tools = NoneSet
          THEN /\ pc' # "raised"
               /\ toolcollection' = DOMAIN tools
          ELSE client.allowed_tools \subseteq DOMAIN tools =>
                  /\ pc' # "raised"
                  /\ toolcollection' = client.allowed_tools]_vars

C20_Witness ==
    /\ pc = "dispatch"
    /\ idx = 1
    /\ executed = <<>>
    /\ client.allowed_tools = {"add"}
    /\ DOMAIN tools = {"add", "sub"}
    /\ toolcollection = {"add"}

(***************************************************************************)
(* Properties of the connection manager and the loader (McpSpec)           *)
(***************************************************************************)
\* C21: disconnect_all does not raise; it attempts every server connected at
\* the call: the servers whose disconnect fails are the ones logged, and
\* every other server is disconnected.
C21_DisconnectAllTolerant ==
    last.op = "disconnect_all" =>
        /\ last.ok
        /\ last.logged = last.failed
        /\ DOMAIN clients = last.failed
        /\ last.failed \subseteq last.before

\* calc failed to disconnect, db was disconnected all the same
C21_Witness ==
    /\ last.op = "disconnect_all"
    /\ last.before = Servers
    /\ last.failed = {"calc"}
    /\ DOMAIN clients = {"calc"}

\* C22: a load_server that fails, at the connection or at the discovery,
\* leaves the server it was connecting out of the connected servers.
C22_FailedLoadCleansUp ==
    (last.op = "load_server" /\ ~last.ok /\ last.server \notin last.before) =>
        last.server \notin DOMAIN clients

\* C23: list_tools and get_tools of a server that is not connected fail with
\* ValueError without asking any server, and leave the registry and the
\* collections as they were; they succeed only for a connected server, and a
\* server becomes connected only by a connect that succeeded and stays so
\* until a disconnect of it has succeeded.
C23_DiscoveryNeedsConnection ==
    [][/\ (last'.op \in {"list_tools", "get_tools"} /\ last' # last) =>
             /\ last'.before = DOMAIN clients
             /\ IF last'.server \in DOMAIN clients
                THEN last'.listed
                ELSE /\ ~last'.ok
                     /\ last'.error = "ValueError"
                     /\ last'.what = "not connected"
                     /\ ~last'.listed
                     /\ tools' = tools
                     /\ collections' = collections
       /\ \A n \in Servers :
             /\ (n \notin DOMAIN clients /\ n \in DOMAIN clients') =>
                   /\ last'.server = n
                   /\ \/ last'.op = "connect_server" /\ last'.pinged
                      \/ last'.op = "load_server" /\ last'.connected
             /\ (n \in DOMAIN clients /\ n \notin DOMAIN clients') =>
                   \/ last'.op = "disconnect_server" /\ last'.server = n
                   \/ last'.op = "disconnect_all" /\ n \notin last'.failed]_vars

\* the tools of calc are listed while it is connected
C23_Witness ==
    /\ last.op = "list_tools"
    /\ last.server = "calc"
    /\ last.ok
    /\ last.names = <<"add", "sub">>
    /\ DOMAIN clients = {"calc"}

\* C24: a load_server whose connection and listing go through returns a
\* collection over exactly the listed names, each of them registered as the
\* reference of that server's tool.
C24_LoadRegistersListed ==
    (last.op = "load_server" /\ last.connected /\ last.listing.ok) =>
        /\ last.ok
        /\ last.tool_names = Range(last.listing.names)
        /\ \A n \in Range(last.listing.names) :
              /\ n \in DOMAIN tools
              /\ tools[n] = ToolRef(n, SessionOf(last.server))

\* C25: loading a server's references binds each of their names to that
\* server's reference, whatever bound it before; the collections built
\* before keep the name, and an invocation of the name through any
\* collection runs the reference loaded last.
C25_SameNameCollision ==
    [][/\ collections \subseteq collections'
       /\ (last'.op = "from_tools" /\ last' # last) =>
             /\ last'.ok
             /\ last'.tool_names = {t.name : t \in last'.tools}
             /\ last'.tool_names \in collections'
             /\ \A t \in last'.tools : \A c \in collections' :
                   t.name \in c => resolve(tools', c, t.name) = [ok |-> TRUE, tool |-> t]
       /\ (last'.op = "call" /\ last' # last /\ last'.name \in last'.c
              /\ last'.name \in DOMAIN tools) =>
             /\ last'.ran
             /\ last'.tool = tools[last'.name]]_vars

\* add invoked through the collection of calc runs the reference of db,
\* which was loaded after calc
C25_Witness ==
    /\ last.op = "call"
    /\ last.c = {"add", "sub"}
    /\ last.name = "add"
    /\ last.ran
    /\ last.tool = ToolRef("add", 2)
    /\ {"add", "div"} \in collections
    /\ tools["sub"] = ToolRef("sub", 1)

(***************************************************************************)
(* Properties of the schemas (checked under SchemaSpec)                    *)
(***************************************************************************)
\* the answer lacks a key the enhancement of func reads
MissingKeys(func, v) ==
    \/ v.kind # "object"
    \/ "description" \notin v.keys
    \/ Len(func.params) > 0 /\ "parameters" \notin v.keys
    \/ \E i \in 1..Len(func.params) :
          /\ "parameters" \in v.keys
          /\ func.params[i].name \in DOMAIN v.parameters
          /\ "description" \notin DOMAIN v.parameters[func.params[i].name]

\* the model call raised, its answer holds no JSON, or keys are missing
FailurePath(func, llm) ==
    \/ ~llm.ok
    \/ llm.content = "not a text"
    \/ llm.content = "prose" /\ llm.fenced \in {"none", "invalid"}
    \/ llm.content \in {"json", "prose"} /\ MissingKeys(func, llm.value)

\* C26: generate_schema returns a schema, and on every failure path the
\* schema it returns is the basic schema of the function, no field changed.
C26_FallbackIsBasicSchema ==
    last.op = "generate_schema" =>
        /\ last.ok
        /\ FailurePath(last.func, last.llm) => last.schema = BasicSchema(last.func)

\* C27: a ToolSchema serialized to JSON and read back is the same schema:
\* name, description, every parameter with its optional fields absent or
\* present, and the required list.
C27_JsonRoundTrip ==
    last.op = "from_json" =>
        /\ last.back.ok
        /\ last.back.schema = last.schema

\* a schema with two parameters, optional fields absent in one and present
\* in the other, has been read back
C27_Witness ==
    /\ last.op = "from_json"
    /\ last.back.ok
    /\ Len(last.schema.parameters) = 2
    /\ last.schema.parameters[1].enum = NoneOpt
    /\ last.schema.parameters[1].nullable = Some(FALSE)
    /\ last.schema.parameters[2].enum = Some(<<"a", "b">>)
    /\ last.schema.parameters[2].description = Some("what it is")
    /\ last.schema.required = <<"x">>
    /\ last.json.v.parameters.v[1].v.enum = JsonNull
    /\ last.back.schema = last.schema

(***************************************************************************)
(* Schemas of a collection (checked under CallSpec)                        *)
(***************************************************************************)
\* C28: get_schemas returns one schema per member name, the schema of the
\* entry the registry holds for that name, whether the entry is backed by a
\* function or by a remote tool; it fails when a member name is not
\* registered any more.
C28_OneSchemaPerMember ==
    last.op = "get_schemas" =>
        IF last.c \subseteq available_tools(tools)
        THEN /\ last.ok
             /\ Len(last.schemas) = Cardinality(last.c)
             /\ \A n \in last.c :
                   \E i \in 1..Len(last.schemas) : last.schemas[i] = schema_of(tools[n])
        ELSE /\ ~last.ok
             /\ last.error = "ValueError"

\* C29: reset empties the registry and leaves every collection as it was:
\* after it no tool is available and get fails for every name, while the
\* collections keep their names; an invocation of a member name and
\* get_schemas of a non-empty collection then fail at the registry lookup.
C29_ResetLeavesCollections ==
    [][
        /\ (last'.op = "reset" /\ last' # last) =>
              /\ available_tools(tools') = {}
              /\ \A n \in Names : ~get(tools', n).ok /\ get(tools', n).error = "ValueError"
              /\ collections' = collections
        /\ (tools = EmptyRegistry /\ last'.op = "call" /\ last' # last
                /\ last'.name \in last'.c) =>
              /\ last'.c \in collections
              /\ ~last'.ran
              /\ last'.error = "ValueError" /\ last'.what = "not registered"
        /\ (tools = EmptyRegistry /\ last'.op = "get_schemas" /\ last' # last
                /\ last'.c # {}) =>
              /\ last'.c \in collections
              /\ ~last'.ok
              /\ last'.error = "ValueError" /\ last'.what = "not registered"
    ]_vars

\* after a reset a collection still holds both names, and get_schemas on it
\* has failed at the lookup of the first one
C29_Witness ==
    /\ tools = EmptyRegistry
    /\ {"add", "sub"} \in collections
    /\ last.op = "get_schemas"
    /\ last.c = {"add", "sub"}
    /\ ~last.ok
    /\ last.what = "not registered"

(***************************************************************************)
(* The message list of a turn (checked under LoopSpec)                     *)
(***************************************************************************)
\* the assistant message of a response, per vendor
AssistantMessage(client_type, response) ==
    IF client_type = "ANTHROPIC"
    THEN [role |-> "assistant", content |-> response.content]
    ELSE response.message

\* C30: while a turn runs its message list only grows at the end, by one
\* message at a time: the caller's messages stay its prefix, the message
\* after them is the assistant message of the first model response, so it
\* precedes every tool response, and nothing is removed or reordered.
C30_MessagesAppendOnly ==
    [][
        (pc \in {"model", "dispatch", "await", "recall"}) =>
            /\ Len(messages') \in {Len(messages), Len(messages) + 1}
            /\ SubSeq(messages', 1, Len(messages)) = messages
            /\ SubSeq(messages', 1, Len(Prompt)) = Prompt
            /\ Len(messages') > Len(Prompt) =>
                  /\ model_calls'[1].ok
                  /\ messages'[Len(Prompt) + 1] =
                        AssistantMessage(client.client_type, model_calls'[1].response)
    ]_vars

\* a turn has returned with the prompt, the assistant message and two tool
\* responses in its list, in this order
C30_Witness ==
    /\ pc = "returned"
    /\ Len(messages) = Len(Prompt) + 3
    /\ SubSeq(messages, 1, Len(Prompt)) = Prompt
    /\ messages[Len(Prompt) + 1] = AssistantMessage(client.client_type, model_calls[1].response)
    /\ Len(executed) = 2
    /\ \A k \in 1..2 : AnswersCall(messages[Len(Prompt) + 1 + k], executed[k])

(***************************************************************************)
(* Reflection-based schemas (checked under ReflectSpec)                    *)
(***************************************************************************)
ParamsOf(func)   == Range(func.params)
NoDefault(func)  == {p.name : p \in {q \in ParamsOf(func) : ~q.has_default}}
SchemaParams(sc) == {sc.parameters[i] : i \in 1..Len(sc.parameters)}

\* C31 as stated: the required list is exactly the parameters without a
\* default value, the parameter list is every parameter but self, and int,
\* str and float are tagged integer, string and number.
C31_RequiredIsNoDefault ==
    last.op = "basic_schema" =>
        /\ Range(last.schema.required) = NoDefault(last.func)
        /\ {ps.name : ps \in SchemaParams(last.schema)}
              = {p.name : p \in ParamsOf(last.func)} \ {"self"}

\* C31: the required list is exactly the parameters other than self that
\* have no default value, each once; the parameter list holds every
\* parameter but self, each once; and the declared types int, str and float
\* are tagged integer, string and number.
C31_RequiredIsNoDefaultButSelf ==
    last.op = "basic_schema" =>
        /\ Range(last.schema.required) = NoDefault(last.func) \ {"self"}
        /\ Len(last.schema.required) = Cardinality(NoDefault(last.func) \ {"self"})
        /\ {ps.name : ps \in SchemaParams(last.schema)}
              = {p.name : p \in ParamsOf(last.func)} \ {"self"}
        /\ Len(last.schema.parameters) = Cardinality(ParamsOf(last.func) \ 
                                             {p \in ParamsOf(last.func) : p.name = "self"})
        /\ \A p \in ParamsOf(last.func), ps \in SchemaParams(last.schema) :
              (p.name = ps.name /\ ~p.annotation.optional) =>
                  /\ p.annotation.type = "int" => ps.param_type = "integer"
                  /\ p.annotation.type = "str" => ps.param_type = "string"
                  /\ p.annotation.type = "float" => ps.param_type = "number"

\* f(self, a: int, b: float = ...) has been reflected: a alone is required
C31_Witness ==
    /\ last.op = "basic_schema"
    /\ Len(last.func.params) = 3
    /\ last.func.params[1].name = "self"
    /\ last.func.params[2] = Param("a", Annotation("int", FALSE), FALSE)
    /\ last.func.params[3] = Param("b", Annotation("float", FALSE), TRUE)
    /\ last.schema.required = <<"a">>
    /\ last.schema.parameters[1].param_type = "integer"
    /\ last.schema.parameters[2].param_type = "number"

(***************************************************************************)
(* The turn at its second model call, and a turn that aborts               *)
(***************************************************************************)
\* the extracted tool calls whose name is in the bound collection
InCollection == {i \in 1..Len(tool_calls) : RequestedName(i) \in toolcollection}

\* C32: when the model is about to be called again, the turn has appended
\* as many tool responses as the first response has calls naming a tool of
\* the bound collection: each of these calls has run and is answered by one
\* message, value or error, and no skipped call has a message.
C32_OneResponsePerBoundCall ==
    pc = "recall" =>
        /\ Len(ToolResponses) = Cardinality(InCollection)
        /\ Len(executed) = Cardinality(InCollection)
        /\ {executed[k].call : k \in 1..Len(executed)} = InCollection
        /\ \A k \in 1..Len(executed) :
              /\ Answered(executed[k])
              /\ AnswersCall(ToolResponses[k], executed[k])

\* of two calls the first names a registered tool outside the collection
\* and is skipped, the second has failed with an error and is answered
C32_Witness ==
    /\ pc = "recall"
    /\ Len(tool_calls) = 2
    /\ InCollection = {2}
    /\ RequestedName(1) \in DOMAIN tools
    /\ Len(ToolResponses) = 1
    /\ executed[1].out.type = "ValueError"

\* C33: a turn that aborts after its first model call takes nothing back:
\* the caller's list still holds the prompt, the assistant message of the
\* first response and one tool response for every call answered before the
\* failure, in this order.
C33_NoRollback ==
    (pc = "raised" /\ Len(model_calls) >= 1 /\ model_calls[1].ok) =>
        /\ SubSeq(messages, 1, Len(Prompt)) = Prompt
        /\ Len(messages) > Len(Prompt)
        /\ messages[Len(Prompt) + 1] =
              AssistantMessage(client.client_type, model_calls[1].response)
        /\ Len(ToolResponses) =
              Cardinality({k \in 1..Len(executed) : Answered(executed[k])})
        /\ \A k \in 1..Len(ToolResponses) :
              AnswersCall(ToolResponses[k], executed[k])

\* the first tool was answered, the second raised an error that aborts
\* the turn: the assistant message and the first tool response remain
C33_Witness ==
    /\ pc = "raised"
    /\ Len(executed) = 2
    /\ executed[1].out.type = "value"
    /\ executed[2].out.type = "RuntimeError"
    /\ Len(messages) = Len(Prompt) + 2
    /\ AnswersCall(messages[Len(Prompt) + 2], executed[1])

(***************************************************************************)
(* A reset while a tool invocation is awaited (checked under LoopSpec)     *)
(***************************************************************************)
\* the registry was reset while a tool of this turn was awaited, and nothing
\* has been registered since
ResetWhileAwaiting ==
    /\ pc \in {"await", "dispatch", "recall"}
    /\ Len(executed) >= 1
    /\ tools = EmptyRegistry

\* C34 as stated: once the registry has been reset while a tool of the turn
\* was awaited, the turn does not call the model again.
C34_ResetEndsTurn ==
    [][
        ResetWhileAwaiting => model_calls' = model_calls
    ]_vars

\* C34: every invocation the loop starts runs the entry the registry holds
\* for the name at that moment; a tool call whose name is not registered,
\* as after a reset while an earlier tool was awaited, fails at the registry
\* lookup: the turn aborts with that error, runs no tool and does not call
\* the model again.  A reset during the last invocation leaves no call to
\* look up, and the turn goes on to its second model call.
C34_NoAbsentToolRuns ==
    [][
        /\ Len(executed') > Len(executed) =>
              /\ pc = "dispatch"
              /\ RequestedName(idx) \in DOMAIN tools
              /\ executed'[Len(executed')].tool = tools[RequestedName(idx)]
        /\ (pc = "dispatch" /\ RequestedName(idx) \notin DOMAIN tools) =>
              /\ pc' = "raised"
              /\ outcome' = get(tools, RequestedName(idx))
              /\ executed' = executed
              /\ model_calls' = model_calls
        /\ (pc = "raised" /\ pc' # "raised") => model_calls' = <<>>
        /\ (ResetWhileAwaiting /\ pc = "await" /\ idx = Len(tool_calls)
                /\ pc' # "await") =>
              pc' = IF Answered(executed'[Len(executed')]) THEN "recall" ELSE "raised"
        /\ (ResetWhileAwaiting /\ pc = "recall" /\ pc' # "recall") =>
              Len(model_calls') = 2
    ]_vars

\* the registry was reset while the first of two tools was awaited: the
\* tool returned, the lookup of the second failed and the turn has aborted
\* after one model call
C34_Witness ==
    /\ pc = "raised"
    /\ tools = EmptyRegistry
    /\ Len(tool_calls) = 2
    /\ Len(executed) = 1
    /\ executed[1].out.type = "value"
    /\ idx = 2
    /\ outcome = get(tools, RequestedName(2))
    /\ Len(model_calls) = 1

(***************************************************************************)
(* Disconnecting and connecting servers (checked under McpSpec)            *)
(***************************************************************************)
\* C35: disconnect_server and disconnect_all change nothing but the table
\* of connected servers: the registry keeps every entry and every
\* collection keeps its names, those of the disconnected server's tools too.
C35_DisconnectFrame ==
    [][
        (last'.op \in {"disconnect_server", "disconnect_all"} /\ last' # last) =>
            /\ tools' = tools
            /\ collections' = collections
            /\ <<client, pc, messages, executed>>' = <<client, pc, messages, executed>>
    ]_vars

\* calc has been disconnected; its tools add and sub are still registered
\* and still the members of their collection
C35_Witness ==
    /\ last.op = "disconnect_server"
    /\ last.server = "calc"
    /\ "calc" \in last.before
    /\ "calc" \notin DOMAIN clients
    /\ {"add", "sub"} \subseteq DOMAIN tools
    /\ tools["add"] = ToolRef("add", SessionOf("calc"))
    /\ tools["sub"] = ToolRef("sub", SessionOf("calc"))
    /\ {"add", "sub"} \in collections

\* C36: disconnect_server never raises; it removes the name from the
\* connected servers when the teardown succeeds, and leaves it connected,
\* the error logged, when the teardown raises; for a name that is not
\* connected it changes nothing.  A disconnect_all in which every teardown
\* succeeds leaves no server connected.
C36_RemovedOnlyWhenTornDown ==
    [][
        /\ (last'.op = "disconnect_server" /\ last' # last) =>
              /\ last'.ok
              /\ last'.before = DOMAIN clients
              /\ IF last'.server \notin DOMAIN clients
                 THEN clients' = clients
                 ELSE IF last'.torn_down
                 THEN /\ DOMAIN clients' = DOMAIN clients \ {last'.server}
                      /\ \A n \in DOMAIN clients' : clients'[n] = clients[n]
                 ELSE /\ clients' = clients
                      /\ last'.logged
        /\ (last'.op = "disconnect_all" /\ last' # last /\ last'.failed = {}) =>
              DOMAIN clients' = {}
    ]_vars

\* with calc and db connected, the teardown of calc has raised: both are
\* still connected
C36_Witness ==
    /\ last.op = "disconnect_server"
    /\ last.server = "calc"
    /\ ~last.torn_down
    /\ last.logged
    /\ last.before = {"calc", "db"}
    /\ DOMAIN clients = {"calc", "db"}

(***************************************************************************)
(* Overlapping connects (checked under ConnectSpec)                        *)
(***************************************************************************)
\* C37: however connect_server calls for one name interleave, the manager
\* holds one client for the name, and a client stored for a name is not
\* replaced while the name stays connected.
C37_StoredClientKept ==
    [][
        \A n \in DOMAIN clients \cap DOMAIN clients' : clients'[n] = clients[n]
    ]_vars

\* C38: a connect_server call in which the creation of the client or the
\* ping raises ends with that error, and leaves the connected servers as
\* they were: its name is not added and no other server is touched.
C38_FailedConnectAddsNothing ==
    [][
        (/\ last'.op = "connect_server" /\ last' # last
         /\ ~last'.already
         /\ ~last'.created \/ ~last'.pinged) =>
            /\ ~last'.ok
            /\ clients' = clients
    ]_vars

\* with db connected, the ping of a connect to calc has raised: db alone
\* is connected
C38_Witness ==
    /\ last.op = "connect_server"
    /\ last.server = "calc"
    /\ last.created
    /\ ~last.pinged
    /\ ~last.ok
    /\ DOMAIN clients = {"db"}

(***************************************************************************)
(* Termination of a turn (checked under LoopLiveSpec)                      *)
(***************************************************************************)
InTurn == pc \in {"model", "dispatch", "await", "recall"}

\* C39: when every model call and every tool invocation comes back, a turn
\* that runs ends: it returns a response or aborts with an error; and
\* it never makes more than two model calls, nor more than one invocation
\* for a tool call of the first response.
C39_TurnTerminates ==
    /\ [](/\ Len(model_calls) <= 2
          /\ Len(executed) <= Len(tool_calls)
          /\ \A j, k \in 1..Len(executed) : j < k => executed[j].call < executed[k].call)
    /\ InTurn ~> (pc \in {"returned", "raised"} /\ outcome # NoOutcome)

\* a turn has returned after two model calls and one invocation for each
\* of its two tool calls
C39_Witness ==
    /\ pc = "returned"
    /\ Len(model_calls) = 2
    /\ outcome = model_calls[2]
    /\ Len(tool_calls) = 2
    /\ Len(executed) = 2
    /\ executed[1].call = 1
    /\ executed[2].call = 2

====
